---- MODULE Spec2Model ----
(***************************************************************************)
(* Interrupt-driven UART console of RTT_helloworld (USER/console.c):       *)
(* the ring buffer uart_rxcb, the semaphore shell_rx_sem, the receive      *)
(* interrupt USART1_IRQHandler and the blocking reader                     *)
(* rt_hw_console_getchar.                                                  *)
(*                                                                         *)
(* The specifications share the state:                                     *)
(*   SeqSpec   - rt_ringbuffer_putchar / rt_ringbuffer_getchar called one  *)
(*               after the other by a single caller;                       *)
(*   BurstSpec - the same caller writing past the capacity, then reading;  *)
(*   Spec      - the interrupt handler preempting the consumer between the *)
(*               statements of rt_hw_console_getchar; FairSpec adds the    *)
(*               scheduling assumptions for the liveness properties.       *)
(***************************************************************************)
EXTENDS Integers, Sequences, FiniteSets, TLC

\* ------------------------------------------------------------------ bounds
\* largest size handed to rt_ringbuffer_init (stands for UART_RX_BUF_LEN)
MaxSize == 4
\* smallest size handed to rt_ringbuffer_init
MinSize == 3
\* times the sequential caller lets each index wrap
MaxWraps == 3
\* writes past the capacity, and reads past it, in the overflow scenario
MaxExtra == 2
\* number of bytes the USART receives in the interrupt-driven system
MaxRx == 9
\* bytes the receiver can hold before the handler reads them
MaxPending == 2
\* calls of rt_hw_console_getchar that are started
MaxCalls == 9

\* rt_ringbuffer_init is called at start-up with sizes from -MaxNeg up
MaxNeg == 1

\* --------------------------------------------------------------- constants
\* rtconfig.h: alignment of RT_ALIGN_DOWN in rt_ringbuffer_init
RT_ALIGN_SIZE == 4
\* width of the read_index / write_index bit-fields: 15 bits
INDEX_MOD == 32768
\* DR & 0xff
BYTE_MOD == 256
\* RT_SEM_VALUE_MAX, the 16 bit counter of struct rt_semaphore
RT_SEM_VALUE_MAX == 65535
\* a difference that is negative as int becomes a value above 2^31 as
\* rt_size_t; 2^32 is outside the integers of the checker, so the wrapped
\* value is represented by x + SIZE_T_WRAP, which is as well non-zero and
\* larger than every capacity.
SIZE_T_WRAP == 2147483647

RT_RINGBUFFER_EMPTY == "EMPTY"
RT_RINGBUFFER_FULL == "FULL"
RT_RINGBUFFER_HALFFULL == "HALFFULL"

\* values the sequential caller writes: 0 and 0xFF
SeqBytes == {0, 255}

\* value of the first byte on the line in the concurrent runs
FirstByte == 254

Sizes == MinSize..MaxSize

VARIABLES
    uart_rxcb,      \* struct rt_ringbuffer: indices, mirrors, buffer_size
    uart_rx_buf,    \* the storage buffer_ptr points to
    shell_rx_sem,   \* value of the semaphore
    hw,             \* bytes waiting in the receiver (RXNE is hw # <<>>)
    nrx,            \* bytes the receiver has taken from the line
    c_pc,           \* position of the consumer in rt_hw_console_getchar
    c_ch,           \* the caller's byte (char ch of rt_hw_console_getchar)
    ncalls,         \* getchar calls started
    isr_pc,         \* position of USART1_IRQHandler
    isr_ch,         \* int ch of USART1_IRQHandler
    isr_drain,      \* this invocation entered the drain branch
    isr_enq,        \* bytes this invocation enqueued
    isr_rel,        \* rt_sem_release calls of this invocation
    op,             \* last ring buffer operation completed
    arg,            \* the byte passed to the last rt_ringbuffer_putchar
    ret,            \* return value of the last operation
    fifo,           \* history: abstract queue, accepted and not yet read
    offered,        \* history: bytes passed to rt_ringbuffer_putchar
    accepted,       \* history: those for which it returned 1
    delivered,      \* history: bytes handed to the caller of getchar
    wwraps,         \* history: times write_index wrapped
    rwraps,         \* history: times read_index wrapped
    nput,           \* history: putchar calls of the sequential caller that
                    \* returned 1
    nget,           \* history: its getchar calls that returned 1
    releases,       \* history: rt_sem_release calls
    takes,          \* history: rt_sem_take calls
    wait_enq,       \* history: bytes enqueued while the consumer waited on
                    \* an empty queue, and not yet handed out
    c_took,         \* history: the current call of rt_hw_console_getchar
                    \* has called rt_sem_take
    c_nonempty      \* history: the buffer held a byte when that call began

vars == <<uart_rxcb, uart_rx_buf, shell_rx_sem, hw, nrx, c_pc, c_ch, ncalls,
          isr_pc, isr_ch, isr_drain, isr_enq, isr_rel, op, arg, ret, fifo,
          offered, accepted, delivered, wwraps, rwraps, nput, nget, releases,
          takes, wait_enq, c_took, c_nonempty>>

\* ----------------------------------------------------------- ring buffer
\* #define RT_ALIGN_DOWN(size, align) ((size) & ~((align) - 1)), align 2^n
RT_ALIGN_DOWN(size, align) == size - (size % align)

\* conversion of an int expression to rt_size_t
ToSizeT(x) == IF x < 0 THEN x + SIZE_T_WRAP ELSE x

\* ~ on a one bit wide bit-field
FlipMirror(m) == 1 - m

\* variant: the mirror comparison of line 67 inverted
rt_ringbuffer_status_MirrorSwap(rb) ==
    IF rb.read_index = rb.write_index
    THEN IF rb.read_mirror = rb.write_mirror
         THEN RT_RINGBUFFER_FULL
         ELSE RT_RINGBUFFER_EMPTY
    ELSE RT_RINGBUFFER_HALFFULL

rt_ringbuffer_status(rb) ==
    IF rb.read_index = rb.write_index
    THEN IF rb.read_mirror = rb.write_mirror
         THEN RT_RINGBUFFER_EMPTY
         ELSE RT_RINGBUFFER_FULL
    ELSE RT_RINGBUFFER_HALFFULL

\* variant: line 95 adds the distance instead of subtracting it
rt_ringbuffer_data_len_SignSlip(rb) ==
    CASE rt_ringbuffer_status(rb) = RT_RINGBUFFER_EMPTY -> 0
      [] rt_ringbuffer_status(rb) = RT_RINGBUFFER_FULL -> ToSizeT(rb.buffer_size)
      [] OTHER ->
           IF rb.write_index > rb.read_index
           THEN ToSizeT(rb.write_index - rb.read_index)
           ELSE ToSizeT(rb.buffer_size + (rb.read_index - rb.write_index))

rt_ringbuffer_data_len(rb) ==
    CASE rt_ringbuffer_status(rb) = RT_RINGBUFFER_EMPTY -> 0
      [] rt_ringbuffer_status(rb) = RT_RINGBUFFER_FULL -> ToSizeT(rb.buffer_size)
      [] OTHER ->
           IF rb.write_index > rb.read_index
           THEN ToSizeT(rb.write_index - rb.read_index)
           ELSE ToSizeT(rb.buffer_size - (rb.read_index - rb.write_index))

rt_ringbuffer_space_len(rb) == ToSizeT(rb.buffer_size - rt_ringbuffer_data_len(rb))

\* the control block after rt_ringbuffer_init(rb, pool, size)
rt_ringbuffer_init(size) ==
    [read_mirror |-> 0, read_index |-> 0,
     write_mirror |-> 0, write_index |-> 0,
     buffer_size |-> RT_ALIGN_DOWN(size, RT_ALIGN_SIZE)]

\* return value of rt_ringbuffer_putchar(rb, ch)
PutcharRet(rb) == IF rt_ringbuffer_space_len(rb) = 0 THEN 0 ELSE 1

\* variant: the byte is stored before the space check of line 134
PutcharBuf_Overwrite(rb, buf, ch) == [buf EXCEPT ![rb.write_index] = ch]

\* storage after rt_ringbuffer_putchar(rb, ch)
PutcharBuf(rb, buf, ch) ==
    IF rt_ringbuffer_space_len(rb) = 0
    THEN buf
    ELSE [buf EXCEPT ![rb.write_index] = ch]

\* variant: line 142 missing, the wrap leaves write_mirror alone
PutcharRb_NoMirror(rb) ==
    IF rt_ringbuffer_space_len(rb) = 0
    THEN rb
    ELSE IF rb.write_index = rb.buffer_size - 1
         THEN [rb EXCEPT !.write_index = 0]
         ELSE [rb EXCEPT !.write_index = (rb.write_index + 1) % INDEX_MOD]

\* control block after rt_ringbuffer_putchar(rb, ch)
PutcharRb(rb) ==
    IF rt_ringbuffer_space_len(rb) = 0
    THEN rb
    ELSE IF rb.write_index = rb.buffer_size - 1
         THEN [rb EXCEPT !.write_mirror = FlipMirror(rb.write_mirror),
                         !.write_index = 0]
         ELSE [rb EXCEPT !.write_index = (rb.write_index + 1) % INDEX_MOD]

\* return value of rt_ringbuffer_getchar(rb, &ch) run without interruption
GetcharRet(rb) == IF rt_ringbuffer_data_len(rb) = 0 THEN 0 ELSE 1

\* variant: line 169 placed before the emptiness check of line 165
GetcharCh_Early(rb, buf, ch) == buf[rb.read_index]

\* *ch after rt_ringbuffer_getchar(rb, &ch) run without interruption
GetcharCh(rb, buf, ch) ==
    IF rt_ringbuffer_data_len(rb) = 0 THEN ch ELSE buf[rb.read_index]

\* variant: line 173 missing, the wrap leaves read_mirror alone
GetcharRb_NoFlip(rb) ==
    IF rt_ringbuffer_data_len(rb) = 0
    THEN rb
    ELSE IF rb.read_index = rb.buffer_size - 1
         THEN [rb EXCEPT !.read_index = 0]
         ELSE [rb EXCEPT !.read_index = (rb.read_index + 1) % INDEX_MOD]

\* control block after rt_ringbuffer_getchar(rb, &ch) run without interruption
GetcharRb(rb) ==
    IF rt_ringbuffer_data_len(rb) = 0
    THEN rb
    ELSE IF rb.read_index = rb.buffer_size - 1
         THEN [rb EXCEPT !.read_mirror = FlipMirror(rb.read_mirror),
                         !.read_index = 0]
         ELSE [rb EXCEPT !.read_index = (rb.read_index + 1) % INDEX_MOD]

\* ------------------------------------------------------------------ helpers
WriteWraps(rb) == rt_ringbuffer_space_len(rb) # 0 /\ rb.write_index = rb.buffer_size - 1
ReadWraps(rb) == rt_ringbuffer_data_len(rb) # 0 /\ rb.read_index = rb.buffer_size - 1

IsPrefix(s, t) == Len(s) <= Len(t) /\ SubSeq(t, 1, Len(s)) = s

Min(a, b) == IF a < b THEN a ELSE b

\* ---------------------------------------------------------------- initial
\* state after rt_hw_uart_init: ring buffer initialised with the size of the
\* receive array, semaphore created with value 0, receive interrupt enabled
Init ==
    /\ \E size \in Sizes :
         /\ uart_rxcb = rt_ringbuffer_init(size)
         /\ uart_rx_buf = [i \in 0..(size - 1) |-> 0]
    /\ shell_rx_sem = 0
    /\ hw = <<>>
    /\ nrx = 0
    /\ c_pc = "idle"
    /\ c_ch = 0
    /\ ncalls = 0
    /\ isr_pc = "idle"
    /\ isr_ch = -1
    /\ isr_drain = FALSE
    /\ isr_enq = 0
    /\ isr_rel = 0
    /\ op = "init"
    /\ arg = 0
    /\ ret = 0
    /\ fifo = <<>>
    /\ offered = <<>>
    /\ accepted = <<>>
    /\ delivered = <<>>
    /\ wwraps = 0
    /\ rwraps = 0
    /\ nput = 0
    /\ nget = 0
    /\ releases = 0
    /\ takes = 0
    /\ wait_enq = <<>>
    /\ c_took = FALSE
    /\ c_nonempty = FALSE

\* ------------------------------------------------- sequential ring buffer
chanvars == <<shell_rx_sem, hw, nrx, c_pc, isr_pc, isr_ch, isr_drain, isr_enq,
              isr_rel, releases, takes, wait_enq, c_took, c_nonempty>>
logvars == <<offered, accepted, delivered>>

\* one uninterrupted call rt_ringbuffer_putchar(&uart_rxcb, ch)
PutcharCall(ch) ==
    /\ uart_rxcb' = PutcharRb(uart_rxcb)
    /\ uart_rx_buf' = PutcharBuf(uart_rxcb, uart_rx_buf, ch)
    /\ ret' = PutcharRet(uart_rxcb)
    /\ op' = "put"
    /\ arg' = ch
    /\ fifo' = IF PutcharRet(uart_rxcb) = 1 THEN Append(fifo, ch) ELSE fifo
    /\ wwraps' = IF WriteWraps(uart_rxcb) THEN wwraps + 1 ELSE wwraps
    /\ nput' = nput + PutcharRet(uart_rxcb)
    /\ UNCHANGED <<c_ch, rwraps, nget>>

\* one uninterrupted call rt_ringbuffer_getchar(&uart_rxcb, &ch)
GetcharCall ==
    /\ uart_rxcb' = GetcharRb(uart_rxcb)
    /\ c_ch' = GetcharCh(uart_rxcb, uart_rx_buf, c_ch)
    /\ ret' = GetcharRet(uart_rxcb)
    /\ op' = "get"
    /\ fifo' = IF GetcharRet(uart_rxcb) = 1 /\ fifo # <<>> THEN Tail(fifo) ELSE fifo
    /\ rwraps' = IF ReadWraps(uart_rxcb) THEN rwraps + 1 ELSE rwraps
    /\ nget' = nget + GetcharRet(uart_rxcb)
    /\ UNCHANGED <<uart_rx_buf, arg, wwraps, nput>>

SeqPutchar(ch) ==
    /\ wwraps < MaxWraps
    /\ PutcharCall(ch)
    /\ UNCHANGED <<chanvars, logvars, ncalls>>

SeqGetchar ==
    /\ rwraps < MaxWraps
    /\ GetcharCall
    /\ UNCHANGED <<chanvars, logvars, ncalls>>

SeqNext == (\E ch \in SeqBytes : SeqPutchar(ch)) \/ SeqGetchar

SeqSpec == Init /\ [][SeqNext]_vars

\* ---------------------------------------------------- overflow scenario
\* writes only, as many as the capacity and MaxExtra more, then reads only
BurstPutchar(ch) ==
    /\ ncalls = 0
    /\ Len(offered) < uart_rxcb.buffer_size + MaxExtra
    /\ PutcharCall(ch)
    /\ offered' = Append(offered, ch)
    /\ accepted' = IF PutcharRet(uart_rxcb) = 1 THEN Append(accepted, ch) ELSE accepted
    /\ UNCHANGED <<chanvars, delivered, ncalls>>

BurstGetchar ==
    /\ ncalls < uart_rxcb.buffer_size + MaxExtra
    /\ GetcharCall
    /\ ncalls' = ncalls + 1
    /\ delivered' = IF GetcharRet(uart_rxcb) = 1
                    THEN Append(delivered, GetcharCh(uart_rxcb, uart_rx_buf, c_ch))
                    ELSE delivered
    /\ UNCHANGED <<chanvars, offered, accepted>>

BurstNext == (\E ch \in SeqBytes : BurstPutchar(ch)) \/ BurstGetchar

BurstSpec == Init /\ [][BurstNext]_vars

\* --------------------------------------------------- interrupt-driven path
seqvars == <<wwraps, rwraps, nput, nget>>
callvars == <<c_took, c_nonempty>>

\* pending in rt_sem_take, or between the failed read and rt_sem_take
WaitPcs == {"take271", "blocked"}

\* the value of the n-th byte on the line: 0xFE, 0xFF, 0x00, 0x01, ...; the
\* values differ, so that a lost, repeated or displaced byte shows in the
\* histories, and 0xFF and 0x00 are among them
HwByte(n) == (n + FirstByte - 1) % BYTE_MOD

\* the bytes the receiver has taken from the line so far
Received == [i \in 1..nrx |-> HwByte(i)]

\* the receiver takes a byte from the line into DR and sets RXNE
HwReceive ==
    /\ nrx < MaxRx
    /\ Len(hw) < MaxPending
    /\ hw' = Append(hw, HwByte(nrx + 1))
    /\ nrx' = nrx + 1
    /\ UNCHANGED <<uart_rxcb, uart_rx_buf, shell_rx_sem, c_pc, c_ch, ncalls,
                   isr_pc, isr_ch, isr_drain, isr_enq, isr_rel, op, arg, ret,
                   fifo, logvars, seqvars, callvars, releases, takes, wait_enq>>

\* USART1_IRQHandler is entered (lines 304-309); it is not reentrant
IrqEnter ==
    /\ isr_pc = "idle"
    /\ isr_pc' = "check311"
    /\ isr_ch' = -1
    /\ UNCHANGED <<uart_rxcb, uart_rx_buf, shell_rx_sem, hw, nrx, c_pc, c_ch,
                   ncalls, isr_drain, isr_enq, isr_rel, op, arg, ret, fifo,
                   logvars, seqvars, callvars, releases, takes, wait_enq>>

\* variant: ch of USART1_IRQHandler declared char, so that the byte 0xFF
\* compares equal to -1
DrToCh_SignedChar(dr) ==
    IF (dr % BYTE_MOD) >= 128 THEN (dr % BYTE_MOD) - BYTE_MOD
    ELSE dr % BYTE_MOD

\* line 319: ch = UartHandle.Instance->DR & 0xff, ch an int
DrToCh(dr) == dr % BYTE_MOD

\* __HAL_UART_GET_IT_SOURCE(&UartHandle, UART_IT_RXNE): line 217 sets RXNEIE
\* before the interrupt is enabled in the NVIC, and nothing clears it
RxneItSource == TRUE

\* __HAL_UART_GET_FLAG(&UartHandle, UART_FLAG_RXNE): a byte is in DR
RxneFlag == hw # <<>>

\* variant: rt_sem_release is called on every invocation, after the if
IsrCheck_ReleaseAlways ==
    /\ isr_pc = "check311"
    /\ isr_pc' = IF RxneFlag /\ RxneItSource THEN "read316" ELSE "release328"
    /\ isr_drain' = (RxneFlag /\ RxneItSource)
    /\ UNCHANGED <<uart_rxcb, uart_rx_buf, shell_rx_sem, hw, nrx, c_pc, c_ch,
                   ncalls, isr_ch, isr_enq, isr_rel, op, arg, ret, fifo,
                   logvars, seqvars, callvars, releases, takes, wait_enq>>

\* lines 311-312: RXNE flag set and RXNE interrupt source enabled
IsrCheck ==
    /\ isr_pc = "check311"
    /\ isr_pc' = IF RxneFlag /\ RxneItSource THEN "read316" ELSE "leave332"
    /\ isr_drain' = (RxneFlag /\ RxneItSource)
    /\ UNCHANGED <<uart_rxcb, uart_rx_buf, shell_rx_sem, hw, nrx, c_pc, c_ch,
                   ncalls, isr_ch, isr_enq, isr_rel, op, arg, ret, fifo,
                   logvars, seqvars, callvars, releases, takes, wait_enq>>

\* variant: the break of line 323 leaves without rt_sem_release when the
\* invocation enqueued nothing
IsrRead_SkipRelease ==
    /\ isr_pc = "read316"
    /\ LET ch == IF hw # <<>> THEN DrToCh(Head(hw)) ELSE -1
       IN  /\ isr_ch' = ch
           /\ hw' = IF hw # <<>> THEN Tail(hw) ELSE hw
           /\ isr_pc' = IF ch # -1 THEN "put326"
                         ELSE IF isr_enq > 0 THEN "release328" ELSE "leave332"
    /\ UNCHANGED <<uart_rxcb, uart_rx_buf, shell_rx_sem, nrx, c_pc, c_ch,
                   ncalls, isr_drain, isr_enq, isr_rel, op, arg, ret, fifo,
                   logvars, seqvars, callvars, releases, takes, wait_enq>>

\* lines 316-324: ch = -1; read DR if RXNE is set; leave the loop if ch is
\* still -1
IsrRead ==
    /\ isr_pc = "read316"
    /\ LET ch == IF hw # <<>> THEN DrToCh(Head(hw)) ELSE -1
       IN  /\ isr_ch' = ch
           /\ hw' = IF hw # <<>> THEN Tail(hw) ELSE hw
           /\ isr_pc' = IF ch = -1 THEN "release328" ELSE "put326"
    /\ UNCHANGED <<uart_rxcb, uart_rx_buf, shell_rx_sem, nrx, c_pc, c_ch,
                   ncalls, isr_drain, isr_enq, isr_rel, op, arg, ret, fifo,
                   logvars, seqvars, callvars, releases, takes, wait_enq>>

\* line 326: rt_ringbuffer_putchar(&uart_rxcb, ch), return value ignored
IsrPut ==
    /\ isr_pc = "put326"
    /\ uart_rxcb' = PutcharRb(uart_rxcb)
    /\ uart_rx_buf' = PutcharBuf(uart_rxcb, uart_rx_buf, isr_ch)
    /\ offered' = Append(offered, isr_ch)
    /\ IF PutcharRet(uart_rxcb) = 1
       THEN /\ accepted' = Append(accepted, isr_ch)
            /\ fifo' = Append(fifo, isr_ch)
            /\ isr_enq' = isr_enq + 1
            /\ wait_enq' = IF c_pc \in WaitPcs /\ fifo = wait_enq
                           THEN Append(wait_enq, isr_ch)
                           ELSE wait_enq
       ELSE UNCHANGED <<accepted, fifo, isr_enq, wait_enq>>
    /\ isr_pc' = "read316"
    /\ UNCHANGED <<shell_rx_sem, hw, nrx, c_pc, c_ch, ncalls, isr_ch, op, arg,
                   ret, isr_drain, isr_rel, delivered, seqvars, callvars, releases, takes>>

\* rt_sem_release: hands the permit to the suspended thread if there is
\* one, else increments the value
SemRelease ==
    IF c_pc = "blocked"
    THEN /\ c_pc' = "status65"
         /\ shell_rx_sem' = shell_rx_sem
    ELSE /\ c_pc' = c_pc
         /\ shell_rx_sem' = IF shell_rx_sem < RT_SEM_VALUE_MAX
                            THEN shell_rx_sem + 1 ELSE shell_rx_sem

\* variant: the handler leaves the loop without rt_sem_release
IsrRelease_Omitted ==
    /\ isr_pc = "release328"
    /\ isr_pc' = "leave332"
    /\ UNCHANGED <<uart_rxcb, uart_rx_buf, shell_rx_sem, c_pc, hw, nrx, c_ch,
                   ncalls, isr_ch, isr_drain, isr_enq, isr_rel, op, arg, ret,
                   fifo, logvars, seqvars, callvars, releases, takes,
                   wait_enq>>

\* line 328: rt_sem_release(&shell_rx_sem) after the loop
IsrRelease ==
    /\ isr_pc = "release328"
    /\ SemRelease
    /\ releases' = releases + 1
    /\ isr_rel' = isr_rel + 1
    /\ isr_pc' = "leave332"
    /\ UNCHANGED <<uart_rxcb, uart_rx_buf, hw, nrx, c_ch, ncalls, isr_ch,
                   isr_drain, isr_enq, op, arg, ret, fifo, logvars, seqvars, callvars,
                   takes, wait_enq>>

\* line 332: rt_interrupt_leave, the interrupted thread goes on
IsrLeave ==
    /\ isr_pc = "leave332"
    /\ isr_pc' = "idle"
    /\ isr_ch' = -1
    /\ isr_drain' = FALSE
    /\ isr_enq' = 0
    /\ isr_rel' = 0
    /\ UNCHANGED <<uart_rxcb, uart_rx_buf, shell_rx_sem, hw, nrx, c_pc, c_ch,
                   ncalls, op, arg, ret, fifo, logvars, seqvars, callvars, releases,
                   takes, wait_enq>>

Isr == IrqEnter \/ IsrCheck \/ IsrRead \/ IsrPut \/ IsrRelease \/ IsrLeave

\* what a step of the consumer leaves alone besides what it names
ConsumerFrame ==
    UNCHANGED <<uart_rx_buf, hw, nrx, isr_pc, isr_ch, isr_drain, isr_enq,
                isr_rel, arg, offered, accepted, seqvars, releases>>

\* rt_hw_console_getchar is called: char ch = 0 (line 266)
ConsoleGetcharCall ==
    /\ isr_pc = "idle"
    /\ c_pc = "idle"
    /\ ncalls < MaxCalls
    /\ ncalls' = ncalls + 1
    /\ c_ch' = 0
    /\ c_pc' = "status65"
    /\ c_took' = FALSE
    /\ c_nonempty' = (rt_ringbuffer_data_len(uart_rxcb) # 0)
    /\ ConsumerFrame
    /\ UNCHANGED <<uart_rxcb, shell_rx_sem, op, ret, fifo, delivered, takes, wait_enq>>

\* line 65 of rt_ringbuffer_status, reached from getchar line 165
GetStatus65 ==
    /\ isr_pc = "idle"
    /\ c_pc = "status65"
    /\ c_pc' = IF uart_rxcb.read_index = uart_rxcb.write_index
               THEN "status67" ELSE "len92"
    /\ ConsumerFrame
    /\ UNCHANGED callvars
    /\ UNCHANGED <<uart_rxcb, shell_rx_sem, c_ch, ncalls, op, ret, fifo,
                   delivered, takes, wait_enq>>

\* variant: rt_hw_console_getchar tries once and returns ch when
\* rt_ringbuffer_getchar returned 0
GetStatus67_NoLoop ==
    /\ isr_pc = "idle"
    /\ c_pc = "status67"
    /\ IF uart_rxcb.read_mirror = uart_rxcb.write_mirror
          \/ ToSizeT(uart_rxcb.buffer_size) = 0
       THEN c_pc' = "ret273"
       ELSE c_pc' = "read169"
    /\ ConsumerFrame
    /\ UNCHANGED callvars
    /\ UNCHANGED <<uart_rxcb, shell_rx_sem, c_ch, ncalls, op, ret, fifo,
                   delivered, takes, wait_enq>>

\* line 67: EMPTY makes getchar return 0, FULL makes data_len buffer_size
GetStatus67 ==
    /\ isr_pc = "idle"
    /\ c_pc = "status67"
    /\ IF uart_rxcb.read_mirror = uart_rxcb.write_mirror
          \/ ToSizeT(uart_rxcb.buffer_size) = 0
       THEN c_pc' = "take271"
       ELSE c_pc' = "read169"
    /\ ConsumerFrame
    /\ UNCHANGED callvars
    /\ UNCHANGED <<uart_rxcb, shell_rx_sem, c_ch, ncalls, op, ret, fifo,
                   delivered, takes, wait_enq>>

\* line 92 of rt_ringbuffer_data_len
GetLen92 ==
    /\ isr_pc = "idle"
    /\ c_pc = "len92"
    /\ c_pc' = IF uart_rxcb.write_index > uart_rxcb.read_index
               THEN "len93" ELSE "len95"
    /\ ConsumerFrame
    /\ UNCHANGED callvars
    /\ UNCHANGED <<uart_rxcb, shell_rx_sem, c_ch, ncalls, op, ret, fifo,
                   delivered, takes, wait_enq>>

\* line 93: return write_index - read_index, tested by line 165
GetLen93 ==
    /\ isr_pc = "idle"
    /\ c_pc = "len93"
    /\ IF ToSizeT(uart_rxcb.write_index - uart_rxcb.read_index) = 0
       THEN c_pc' = "take271"
       ELSE c_pc' = "read169"
    /\ ConsumerFrame
    /\ UNCHANGED callvars
    /\ UNCHANGED <<uart_rxcb, shell_rx_sem, c_ch, ncalls, op, ret, fifo,
                   delivered, takes, wait_enq>>

\* line 95: return buffer_size - (read_index - write_index)
GetLen95 ==
    /\ isr_pc = "idle"
    /\ c_pc = "len95"
    /\ IF ToSizeT(uart_rxcb.buffer_size
                  - (uart_rxcb.read_index - uart_rxcb.write_index)) = 0
       THEN c_pc' = "take271"
       ELSE c_pc' = "read169"
    /\ ConsumerFrame
    /\ UNCHANGED callvars
    /\ UNCHANGED <<uart_rxcb, shell_rx_sem, c_ch, ncalls, op, ret, fifo,
                   delivered, takes, wait_enq>>

\* line 169: *ch = rb->buffer_ptr[rb->read_index]
GetRead169 ==
    /\ isr_pc = "idle"
    /\ c_pc = "read169"
    /\ c_ch' = uart_rx_buf[uart_rxcb.read_index]
    /\ fifo' = IF fifo # <<>> THEN Tail(fifo) ELSE fifo
    /\ c_pc' = "cmp171"
    /\ ConsumerFrame
    /\ UNCHANGED callvars
    /\ UNCHANGED <<uart_rxcb, shell_rx_sem, ncalls, op, ret, delivered, takes,
                   wait_enq>>

\* variant: line 171 compares read_index with buffer_size
GetCmp171_OffByOne ==
    /\ isr_pc = "idle"
    /\ c_pc = "cmp171"
    /\ c_pc' = IF uart_rxcb.read_index = uart_rxcb.buffer_size
               THEN "flip173" ELSE "inc178"
    /\ ConsumerFrame
    /\ UNCHANGED callvars
    /\ UNCHANGED <<uart_rxcb, shell_rx_sem, c_ch, ncalls, op, ret, fifo,
                   delivered, takes, wait_enq>>

\* line 171: if (rb->read_index == rb->buffer_size-1)
GetCmp171 ==
    /\ isr_pc = "idle"
    /\ c_pc = "cmp171"
    /\ c_pc' = IF uart_rxcb.read_index = uart_rxcb.buffer_size - 1
               THEN "flip173" ELSE "inc178"
    /\ ConsumerFrame
    /\ UNCHANGED callvars
    /\ UNCHANGED <<uart_rxcb, shell_rx_sem, c_ch, ncalls, op, ret, fifo,
                   delivered, takes, wait_enq>>

\* line 173: rb->read_mirror = ~rb->read_mirror
GetFlip173 ==
    /\ isr_pc = "idle"
    /\ c_pc = "flip173"
    /\ uart_rxcb' = [uart_rxcb EXCEPT !.read_mirror = FlipMirror(uart_rxcb.read_mirror)]
    /\ c_pc' = "reset174"
    /\ ConsumerFrame
    /\ UNCHANGED callvars
    /\ UNCHANGED <<shell_rx_sem, c_ch, ncalls, op, ret, fifo, delivered, takes,
                   wait_enq>>

\* variant: the wrap of the read side resets write_index as well
GetReset174_BothIndices ==
    /\ isr_pc = "idle"
    /\ c_pc = "reset174"
    /\ uart_rxcb' = [uart_rxcb EXCEPT !.read_index = 0, !.write_index = 0]
    /\ c_pc' = "ret273"
    /\ ConsumerFrame
    /\ UNCHANGED callvars
    /\ UNCHANGED <<shell_rx_sem, c_ch, ncalls, op, ret, fifo, delivered, takes,
                   wait_enq>>

\* line 174: rb->read_index = 0; line 181: return 1 ends the loop of 269
GetReset174 ==
    /\ isr_pc = "idle"
    /\ c_pc = "reset174"
    /\ uart_rxcb' = [uart_rxcb EXCEPT !.read_index = 0]
    /\ c_pc' = "ret273"
    /\ ConsumerFrame
    /\ UNCHANGED callvars
    /\ UNCHANGED <<shell_rx_sem, c_ch, ncalls, op, ret, fifo, delivered, takes,
                   wait_enq>>

\* line 178: rb->read_index++; line 181: return 1 ends the loop of 269
GetInc178 ==
    /\ isr_pc = "idle"
    /\ c_pc = "inc178"
    /\ uart_rxcb' = [uart_rxcb EXCEPT !.read_index = (uart_rxcb.read_index + 1) % INDEX_MOD]
    /\ c_pc' = "ret273"
    /\ ConsumerFrame
    /\ UNCHANGED callvars
    /\ UNCHANGED <<shell_rx_sem, c_ch, ncalls, op, ret, fifo, delivered, takes,
                   wait_enq>>

\* rt_sem_take with RT_WAITING_FOREVER: takes a permit if the value is
\* positive, else suspends the calling thread
SemTakeForever ==
    IF shell_rx_sem > 0
    THEN shell_rx_sem' = shell_rx_sem - 1 /\ c_pc' = "status65"
    ELSE shell_rx_sem' = shell_rx_sem /\ c_pc' = "blocked"

\* variant: line 271 passes a zero timeout, the call comes back at once
SemTake_NoWait ==
    /\ isr_pc = "idle"
    /\ c_pc = "take271"
    /\ shell_rx_sem' = (IF shell_rx_sem > 0 THEN shell_rx_sem - 1 ELSE shell_rx_sem)
    /\ c_pc' = "status65"
    /\ takes' = takes + 1
    /\ c_took' = TRUE
    /\ ConsumerFrame
    /\ UNCHANGED <<uart_rxcb, c_ch, ncalls, op, ret, fifo, delivered, wait_enq,
                   c_nonempty>>

\* line 271: rt_sem_take(&shell_rx_sem, RT_WAITING_FOREVER), then line 269
SemTake ==
    /\ isr_pc = "idle"
    /\ c_pc = "take271"
    /\ SemTakeForever
    /\ takes' = takes + 1
    /\ c_took' = TRUE
    /\ ConsumerFrame
    /\ UNCHANGED <<uart_rxcb, c_ch, ncalls, op, ret, fifo, delivered, wait_enq,
                   c_nonempty>>

\* line 273: return ch
ConsoleGetcharReturn ==
    /\ isr_pc = "idle"
    /\ c_pc = "ret273"
    /\ delivered' = Append(delivered, c_ch)
    /\ wait_enq' = IF wait_enq # <<>> THEN Tail(wait_enq) ELSE wait_enq
    /\ c_pc' = "idle"
    /\ c_took' = FALSE
    /\ c_nonempty' = FALSE
    /\ ConsumerFrame
    /\ UNCHANGED <<uart_rxcb, shell_rx_sem, c_ch, ncalls, op, ret, fifo, takes>>

Consumer ==
    \/ ConsoleGetcharCall \/ GetStatus65 \/ GetStatus67 \/ GetLen92
    \/ GetLen93 \/ GetLen95 \/ GetRead169 \/ GetCmp171 \/ GetFlip173
    \/ GetReset174 \/ GetInc178 \/ SemTake \/ ConsoleGetcharReturn

Next == HwReceive \/ Isr \/ Consumer

Spec == Init /\ [][Next]_vars

\* the steps of the handler once it is entered: it runs to completion
IsrRun == IsrCheck \/ IsrRead \/ IsrPut \/ IsrRelease \/ IsrLeave

\* a pending byte raises the interrupt (RXNEIE is set by rt_hw_uart_init)
IrqFire == hw # <<>> /\ IrqEnter

\* the consumer inside rt_hw_console_getchar
ConsumerRun ==
    \/ GetStatus65 \/ GetStatus67 \/ GetLen92 \/ GetLen93 \/ GetLen95
    \/ GetRead169 \/ GetCmp171 \/ GetFlip173 \/ GetReset174 \/ GetInc178
    \/ SemTake \/ ConsoleGetcharReturn

\* the handler runs to completion, a pending byte is served, and the
\* scheduler lets the consumer run however often interrupts preempt it;
\* nothing obliges the line to deliver bytes
FairSpec ==
    /\ Spec
    /\ WF_vars(IsrRun)
    /\ WF_vars(IrqFire)
    /\ SF_vars(ConsumerRun)

\* ------------------------------------------------------------ start-up
\* sizes rt_ringbuffer_init is called with, the non-positive ones included
BootSizes == (0 - MaxNeg)..MaxSize

\* before rt_hw_uart_init: uart_rxcb is zero-initialised static storage
BootInit ==
    /\ uart_rxcb = [read_mirror |-> 0, read_index |-> 0, write_mirror |-> 0,
                    write_index |-> 0, buffer_size |-> 0]
    /\ uart_rx_buf = [i \in {} |-> 0]
    /\ shell_rx_sem = 0
    /\ hw = <<>>
    /\ nrx = 0
    /\ c_pc = "idle"
    /\ c_ch = 0
    /\ ncalls = 0
    /\ isr_pc = "idle"
    /\ isr_ch = -1
    /\ isr_drain = FALSE
    /\ isr_enq = 0
    /\ isr_rel = 0
    /\ op = "reset"
    /\ arg = 0
    /\ ret = 0
    /\ fifo = <<>>
    /\ offered = <<>>
    /\ accepted = <<>>
    /\ delivered = <<>>
    /\ wwraps = 0
    /\ rwraps = 0
    /\ nput = 0
    /\ nget = 0
    /\ releases = 0
    /\ takes = 0
    /\ wait_enq = <<>>
    /\ c_took = FALSE
    /\ c_nonempty = FALSE

\* variant: RT_ASSERT expands to nothing
RT_ASSERT_Disabled(ex) == FALSE

\* RT_ASSERT(ex) does not return when ex is false
RT_ASSERT(ex) == ~ex

\* rt_ringbuffer_init(&uart_rxcb, uart_rx_buf, size), lines 106-120: the
\* assertion of line 111, then the assignments of lines 114-119
RingbufferInitCall(size) ==
    /\ op = "reset"
    /\ arg' = size
    /\ IF RT_ASSERT(size > 0)
       THEN /\ op' = "assert"
            /\ UNCHANGED <<uart_rxcb, uart_rx_buf>>
       ELSE /\ op' = "init"
            /\ uart_rxcb' = rt_ringbuffer_init(size)
            /\ uart_rx_buf' = [i \in 0..(size - 1) |-> 0]
    /\ UNCHANGED <<chanvars, logvars, seqvars, c_ch, ncalls, ret, fifo>>

\* the calls that follow a rt_ringbuffer_init that returned
BootOps == op \notin {"reset", "assert"} /\ SeqNext

BootNext == (\E size \in BootSizes : RingbufferInitCall(size)) \/ BootOps

BootSpec == BootInit /\ [][BootNext]_vars

\* ------------------------------------------------------ the handler alone
\* the receiver and USART1_IRQHandler without the consumer, which does not
\* run while the handler does; the handler, once entered, keeps running
DrainNext == HwReceive \/ Isr

DrainSpec == Init /\ [][DrainNext]_vars /\ WF_vars(IsrRun)

\* the byte the handler holds between the read of line 319 and line 326
InHand == IF isr_pc = "put326" THEN <<isr_ch>> ELSE <<>>

\* ------------------------------------------------------------------ claims
\* offered with the bytes putchar refused removed is accepted, by the way the
\* histories are kept; what is left to state is the order of delivery

\* C1: the bytes rt_hw_console_getchar has returned are, in order and each
\* once, the first of the bytes the interrupt handler read from the hardware
\* and rt_ringbuffer_putchar accepted; nothing else is ever returned
C1_DeliveredInOrder == IsPrefix(delivered, accepted)

\* C2 (wake-up part): a consumer waiting in rt_hw_console_getchar while the
\* buffer holds a byte gets to return
C2_NoLostWakeup == (c_pc \in WaitPcs /\ rt_ringbuffer_data_len(uart_rxcb) # 0) ~> (c_pc = "idle")

\* C2 (order part): while bytes enqueued during the wait are outstanding,
\* each return hands out the oldest of them
C2_WaitBatchInOrder == (c_pc = "ret273" /\ wait_enq # <<>>) => c_ch = Head(wait_enq)

\* number of bytes the sequential caller has put and not yet got
Occupied == nput - nget

\* C3: called one after the other, putchar and getchar behave as a FIFO
\* queue bounded by the capacity: putchar accepts exactly when the queue
\* holds fewer bytes than the capacity, getchar succeeds exactly when the
\* queue is not empty and then returns its oldest byte
C3_FifoRefinement ==
    [][/\ op' = "put" =>
            ret' = (IF Len(fifo) < uart_rxcb.buffer_size THEN 1 ELSE 0)
       /\ op' = "get" =>
            /\ ret' = (IF fifo # <<>> THEN 1 ELSE 0)
            /\ fifo # <<>> => c_ch' = Head(fifo)]_vars

\* a byte is read after both indices have wrapped twice
C3_Witness == op = "get" /\ ret = 1 /\ wwraps >= 2 /\ rwraps >= 2

C5_LenInRange ==
    /\ rt_ringbuffer_data_len(uart_rxcb) >= 0
    /\ rt_ringbuffer_data_len(uart_rxcb) <= uart_rxcb.buffer_size
    /\ nget = nput => GetcharRet(uart_rxcb) = 0

\* everything put was got, past a wrap, and a further getchar returned 0
C5_Witness == nget = nput /\ nput > uart_rxcb.buffer_size /\ op = "get" /\ ret = 0

\* C6: data_len, a function of the indices and mirrors alone, is the number
\* of successful putchar calls minus the number of successful getchar calls:
\* 0 or the capacity when the indices are equal, by the mirrors, and else the
\* distance from read_index forward to write_index
C6_LenIsBalance ==
    LET rb == uart_rxcb IN
    /\ rt_ringbuffer_data_len(rb) = Occupied
    /\ Occupied =
         IF rb.read_index = rb.write_index
         THEN IF rb.read_mirror = rb.write_mirror THEN 0 ELSE rb.buffer_size
         ELSE (rb.write_index - rb.read_index + rb.buffer_size) % rb.buffer_size

\* the write index is behind the read index with bytes stored on both sides
C6_Witness ==
    /\ uart_rxcb.write_index < uart_rxcb.read_index
    /\ uart_rxcb.write_index > 0
    /\ Occupied >= 2

\* C7: putchar on a full buffer returns 0 and changes neither the storage
\* nor the control block; otherwise it returns 1, stores the byte at
\* write_index and advances write_index, to 0 with write_mirror flipped
\* exactly when it was capacity - 1
C7_Putchar ==
    [][op' = "put" =>
         LET rb == uart_rxcb IN
         IF Occupied = rb.buffer_size
         THEN /\ ret' = 0
              /\ uart_rx_buf' = uart_rx_buf
              /\ uart_rxcb' = rb
         ELSE /\ ret' = 1
              /\ uart_rx_buf' = [uart_rx_buf EXCEPT ![rb.write_index] = arg']
              /\ uart_rxcb' =
                   IF rb.write_index = rb.buffer_size - 1
                   THEN [rb EXCEPT !.write_index = 0,
                                   !.write_mirror = 1 - rb.write_mirror]
                   ELSE [rb EXCEPT !.write_index = rb.write_index + 1]]_vars

\* a putchar was refused on a full buffer whose write index had wrapped
C7_Witness ==
    /\ op = "put" /\ ret = 0
    /\ uart_rxcb.buffer_size > 0
    /\ Occupied = uart_rxcb.buffer_size
    /\ wwraps >= 1

\* C8: getchar on an empty buffer returns 0 and changes neither the control
\* block, nor the storage, nor the caller's byte
C8_GetcharEmpty ==
    [][(op' = "get" /\ Occupied = 0) =>
         /\ ret' = 0
         /\ uart_rxcb' = uart_rxcb
         /\ uart_rx_buf' = uart_rx_buf
         /\ c_ch' = c_ch]_vars

\* getchar returned 0 on a buffer emptied by reads, the caller's byte still
\* holding the 0xFF read before, the slot under read_index holding 0
C8_Witness ==
    /\ op = "get" /\ ret = 0
    /\ nput > 0 /\ Occupied = 0
    /\ c_ch = 255
    /\ uart_rx_buf[uart_rxcb.read_index] = 0

\* the permit a suspended consumer is owed
Owed == IF c_pc = "blocked" THEN 1 ELSE 0

\* C9: an invocation of the handler that entered the drain branch has, when
\* it leaves, called rt_sem_release once, and not before the loop ended,
\* whatever number of bytes it enqueued; every release adds a permit or
\* resumes the suspended consumer, so the value is the number of releases
\* less the number of rt_sem_take calls served
C9_OneReleasePerDrain ==
    /\ (isr_pc = "leave332" /\ isr_drain) => isr_rel = 1
    /\ isr_pc \in {"read316", "put326", "release328"} => isr_rel = 0
    /\ shell_rx_sem = releases - takes + Owed

\* a drain that enqueued nothing, the buffer being full, has released, and
\* permits of earlier drains are still there
C9_Witness ==
    /\ isr_pc = "leave332" /\ isr_drain
    /\ isr_enq = 0
    /\ isr_rel = 1
    /\ uart_rxcb.buffer_size > 0
    /\ rt_ringbuffer_data_len(uart_rxcb) = uart_rxcb.buffer_size
    /\ shell_rx_sem >= 3
    /\ takes = 0

\* C10 as stated: a consumer suspended in the wait comes back from it
\* without a release
C10_WaitExpires == (c_pc = "blocked") ~> (c_pc # "blocked")

\* C10 amended: the wait has no timeout. rt_sem_take finding the value 0
\* suspends the consumer; while it is suspended the value stays 0; it
\* resumes only by the rt_sem_release of the handler and then reads the
\* buffer again
C10_WaitsForRelease ==
    /\ [](c_pc = "blocked" => shell_rx_sem = 0)
    /\ [][(c_pc = "take271" /\ shell_rx_sem = 0 /\ c_pc' # "take271")
             => c_pc' = "blocked"]_vars
    /\ [][(c_pc = "blocked" /\ c_pc' # "blocked")
             => (isr_pc = "release328" /\ c_pc' = "status65"
                 /\ shell_rx_sem' = 0)]_vars

\* the consumer was suspended and a release has just resumed it
C10_Witness ==
    /\ isr_pc = "leave332" /\ isr_rel = 1
    /\ c_pc = "status65"
    /\ shell_rx_sem = 0
    /\ takes > 0 /\ takes = releases

\* C11: when every slot of the buffer holds an unread byte, the byte the
\* handler passes to rt_ringbuffer_putchar is dropped: the step stores
\* nothing, leaves the indices, the mirrors, the stored bytes and their order
\* as they were, and the handler goes on with the next read of the loop
C11_DropWhenFull ==
    [][(/\ isr_pc = "put326" /\ isr_pc' # "put326"
        /\ uart_rxcb.buffer_size > 0
        /\ Len(fifo) = uart_rxcb.buffer_size)
       => /\ isr_pc' = "read316"
          /\ uart_rxcb' = uart_rxcb
          /\ uart_rx_buf' = uart_rx_buf
          /\ fifo' = fifo
          /\ accepted' = accepted
          /\ offered' = Append(offered, isr_ch)
          /\ shell_rx_sem' = shell_rx_sem
          /\ c_pc' = c_pc]_vars

\* C11, as far as the code carries it: a byte rt_ringbuffer_putchar refuses
\* (line 134 finds no space) is dropped in that way
C11_DropWhenRefused ==
    [][(/\ isr_pc = "put326" /\ isr_pc' # "put326"
        /\ rt_ringbuffer_space_len(uart_rxcb) = 0)
       => /\ isr_pc' = "read316"
          /\ uart_rxcb' = uart_rxcb
          /\ uart_rx_buf' = uart_rx_buf
          /\ fifo' = fifo
          /\ accepted' = accepted
          /\ offered' = Append(offered, isr_ch)
          /\ shell_rx_sem' = shell_rx_sem
          /\ c_pc' = c_pc]_vars

\* a byte has been dropped on a full buffer of capacity 4 and the handler is
\* back at the read of the loop
C11_Witness ==
    /\ isr_pc = "read316"
    /\ uart_rxcb.buffer_size > 0
    /\ rt_ringbuffer_space_len(uart_rxcb) = 0
    /\ Len(offered) > Len(accepted)

\* C12: the two paths write disjoint fields. A step that changes
\* write_index, write_mirror or the storage is the handler's call of
\* rt_ringbuffer_putchar, changes the storage at most in the slot at
\* write_index and leaves read_index and read_mirror alone; a step that
\* changes read_index or read_mirror is a step of the consumer inside
\* rt_ringbuffer_getchar and leaves write_index, write_mirror and the storage
\* alone; buffer_size is written by neither
C12_DisjointOwnership ==
    [][/\ (\/ uart_rxcb'.write_index # uart_rxcb.write_index
           \/ uart_rxcb'.write_mirror # uart_rxcb.write_mirror
           \/ uart_rx_buf' # uart_rx_buf)
          => /\ isr_pc = "put326"
             /\ c_pc' = c_pc
             /\ uart_rxcb'.read_index = uart_rxcb.read_index
             /\ uart_rxcb'.read_mirror = uart_rxcb.read_mirror
             /\ \A i \in DOMAIN uart_rx_buf :
                    i # uart_rxcb.write_index => uart_rx_buf'[i] = uart_rx_buf[i]
       /\ (\/ uart_rxcb'.read_index # uart_rxcb.read_index
           \/ uart_rxcb'.read_mirror # uart_rxcb.read_mirror)
          => /\ isr_pc = "idle" /\ isr_pc' = "idle"
             /\ c_pc \in {"flip173", "reset174", "inc178"}
             /\ uart_rxcb'.write_index = uart_rxcb.write_index
             /\ uart_rxcb'.write_mirror = uart_rxcb.write_mirror
             /\ uart_rx_buf' = uart_rx_buf
       /\ uart_rxcb'.buffer_size = uart_rxcb.buffer_size]_vars

\* the handler has stored a byte while the consumer is between the two
\* statements of its wrap, after both sides have wrapped before
C12_Witness ==
    /\ c_pc = "reset174"
    /\ isr_pc = "read316"
    /\ isr_enq > 0
    /\ uart_rxcb.buffer_size > 0
    /\ Len(delivered) >= uart_rxcb.buffer_size

\* C13: a call of rt_hw_console_getchar that began with a byte in the buffer
\* never reaches rt_sem_take: it makes no take and is never suspended, and
\* the semaphore is only ever touched by the consumer at line 271, which it
\* reaches only from a rt_ringbuffer_getchar of the same call that returned 0
C13_NoTakeWhenNonEmpty ==
    c_nonempty => (c_pc \notin WaitPcs /\ ~c_took)

\* C13, as far as the code carries it: such a call is never suspended, and
\* line 271 is reached only from a check of rt_ringbuffer_getchar that came
\* out as "no data"
C13_NeverSuspended ==
    [][/\ c_nonempty => c_pc' # "blocked"
       /\ (c_pc' = "take271" /\ c_pc # "take271")
          => c_pc \in {"status67", "len93", "len95"}]_vars

\* C14: rt_ringbuffer_init called with a size of 0 or less stops in the
\* assertion of line 111 and nothing runs after it: it returns exactly for
\* the positive sizes, and rt_ringbuffer_putchar and rt_ringbuffer_getchar
\* only ever operate on a buffer such a call has set up
C14_InitHalts ==
    [][/\ (op = "reset" /\ op' # "reset")
          => /\ arg' <= 0 <=> op' = "assert"
             /\ arg' > 0 <=> op' = "init"
       /\ op = "assert" => UNCHANGED vars
       /\ op' \in {"put", "get"}
          => /\ op \in {"init", "put", "get"}
             /\ DOMAIN uart_rx_buf # {}]_vars

\* the call with size 0 has stopped in the assertion
C14_Witness == op = "assert" /\ arg = 0

\* C15: a wake-up is a hint. When rt_sem_take returns, the consumer goes
\* back to rt_ringbuffer_getchar (line 269); a check that finds the buffer
\* empty leads to rt_sem_take again, which suspends the consumer unless a
\* permit is left; rt_hw_console_getchar reaches its return only from a
\* rt_ringbuffer_getchar that returned 1, with the byte line 169 copied
\* from the storage, a byte rt_ringbuffer_putchar had accepted
C15_WakeIsHint ==
    [][/\ (c_pc \in WaitPcs /\ c_pc' \notin WaitPcs) => c_pc' = "status65"
       /\ (/\ c_pc = "status67" /\ c_pc' # c_pc
           /\ uart_rxcb.read_mirror = uart_rxcb.write_mirror)
          => c_pc' = "take271"
       /\ (c_pc = "take271" /\ c_pc' # c_pc /\ shell_rx_sem = 0)
          => c_pc' = "blocked"
       /\ (c_pc' = "ret273" /\ c_pc # "ret273")
          => /\ c_pc \in {"reset174", "inc178"}
             /\ \E i \in 1..Len(accepted) : accepted[i] = c_ch'
       /\ (c_pc = "read169" /\ c_pc' # c_pc)
          => c_ch' = uart_rx_buf[uart_rxcb.read_index]
       /\ c_pc \in {"cmp171", "flip173", "reset174", "inc178", "ret273"}
          => c_ch' = c_ch
       /\ (c_pc = "ret273" /\ c_pc' # c_pc)
          => delivered' = Append(delivered, c_ch)]_vars

\* in one call rt_sem_take has returned with the buffer empty and the
\* consumer, having retried and found it empty again, is at line 271 once
\* more with no permit left
C15_Witness ==
    /\ c_pc = "take271"
    /\ c_took
    /\ isr_pc = "idle"
    /\ shell_rx_sem = 0
    /\ uart_rxcb.buffer_size > 0
    /\ rt_ringbuffer_data_len(uart_rxcb) = 0
    /\ fifo = <<>>
    /\ delivered # <<>>

\* C16: once rt_ringbuffer_init has set a positive capacity C, read_index
\* and write_index are in 0..C-1 in every state the handler and the consumer
\* reach in any interleaving, so the slot line 137 writes and the slot line
\* 169 reads are slots of the backing array
C16_IndicesInRange ==
    uart_rxcb.buffer_size > 0
    => /\ uart_rxcb.read_index \in 0..(uart_rxcb.buffer_size - 1)
       /\ uart_rxcb.write_index \in 0..(uart_rxcb.buffer_size - 1)
       /\ uart_rxcb.read_index \in DOMAIN uart_rx_buf
       /\ uart_rxcb.write_index \in DOMAIN uart_rx_buf

\* both indices on the last slot, the consumer between the two statements
\* of its wrap and the handler about to store a byte
C16_Witness ==
    /\ uart_rxcb.buffer_size > 0
    /\ uart_rxcb.read_index = uart_rxcb.buffer_size - 1
    /\ uart_rxcb.write_index = uart_rxcb.buffer_size - 1
    /\ c_pc = "reset174"
    /\ isr_pc = "put326"

\* C17: with finitely many bytes arriving, an invocation of the handler
\* comes to its end, and at every position before that it has a step to
\* take (it never waits); the bytes passed to rt_ringbuffer_putchar, the
\* byte in hand and the bytes still pending are, in order and each once,
\* the bytes received, whatever their value; the loop is left only when no
\* byte is pending
C17_DrainTerminates ==
    /\ (isr_pc # "idle") ~> (isr_pc = "idle")
    /\ [](isr_pc # "idle" => ENABLED IsrRun)
    /\ [](Received = offered \o InHand \o hw)
    /\ [][(isr_pc = "read316" /\ isr_pc' = "release328")
          => (hw = <<>> /\ hw' = <<>>)]_vars
    /\ [][(isr_pc = "read316" /\ isr_pc' = "put326")
          => (hw # <<>> /\ hw' = Tail(hw) /\ isr_ch' = Head(hw))]_vars

\* a drain has ended that offered the bytes 0xFF and 0x00 and had one of
\* its bytes refused by the full buffer
C17_Witness ==
    /\ isr_pc = "leave332"
    /\ isr_drain
    /\ hw = <<>>
    /\ \E i \in 1..Len(offered) : offered[i] = 255
    /\ \E i \in 1..Len(offered) : offered[i] = 0
    /\ Len(offered) > Len(accepted)
    /\ uart_rxcb.buffer_size > 0

\* C18: at every point at which the handler can preempt the consumer, the
\* point between lines 173 and 174 included, the free space
\* rt_ringbuffer_putchar would compute is no more than the number of slots
\* that hold no unread byte, so that it never stores over an unread byte
C18_SpaceNeverOverstated ==
    uart_rxcb.buffer_size > 0
    => rt_ringbuffer_space_len(uart_rxcb) <= uart_rxcb.buffer_size - Len(fifo)

\* C19: while the handler is not running, a consumer suspended in
\* rt_sem_take with the semaphore at 0 means an empty buffer: no byte is
\* stored and unread, and rt_ringbuffer_data_len is 0
C19_BlockedMeansEmpty ==
    (isr_pc = "idle" /\ c_pc = "blocked" /\ shell_rx_sem = 0)
    => (fifo = <<>> /\ rt_ringbuffer_data_len(uart_rxcb) = 0)

\* the consumer is suspended on an empty buffer of capacity 4 after bytes
\* have gone through it and a drain has ended
C19_Witness ==
    /\ isr_pc = "idle"
    /\ c_pc = "blocked"
    /\ shell_rx_sem = 0
    /\ uart_rxcb.buffer_size > 0
    /\ Len(delivered) >= uart_rxcb.buffer_size
    /\ releases > 0

\* C20: an invocation of the handler that finds the condition of lines
\* 311-312 false (RXNE clear, or the RXNE interrupt source disabled) goes
\* straight to rt_interrupt_leave: from its entry to its end the indices,
\* the mirrors, the storage, the semaphore and the consumer stay as they
\* were, it has stored no byte, read none and released nothing
C20_IdleInvocation ==
    [][/\ (/\ isr_pc = "check311" /\ isr_pc' # isr_pc
           /\ ~(RxneFlag /\ RxneItSource))
          => /\ isr_pc' = "leave332" /\ ~isr_drain'
             /\ isr_enq = 0 /\ isr_rel = 0
             /\ UNCHANGED <<uart_rxcb, uart_rx_buf, shell_rx_sem, c_pc, hw,
                            fifo, offered, accepted, releases>>
       /\ (isr_pc = "leave332" /\ isr_pc' # isr_pc /\ ~isr_drain)
          => /\ isr_pc' = "idle"
             /\ isr_enq = 0 /\ isr_rel = 0
             /\ UNCHANGED <<uart_rxcb, uart_rx_buf, shell_rx_sem, c_pc, hw,
                            fifo, offered, accepted, releases>>
       /\ (isr_pc = "idle" /\ isr_pc' # isr_pc)
          => UNCHANGED <<uart_rxcb, uart_rx_buf, shell_rx_sem, c_pc, hw,
                         fifo, offered, accepted, releases>>]_vars

\* an invocation that found RXNE clear is at its end; bytes are in the
\* buffer and the semaphore holds a permit
C20_Witness ==
    /\ isr_pc = "leave332"
    /\ ~isr_drain
    /\ hw = <<>>
    /\ fifo # <<>>
    /\ shell_rx_sem > 0

====
